---- MODULE Spec2Model ----
(***************************************************************************)
(* A model of the go-apns client (package apns): the ApnsConn connection   *)
(* state machine (connect, shutdown), SendPayload with its send lock and   *)
(* deferred shutdown, the feedback goroutine of StartListening, and the    *)
(* feedback record decoder parseAppleFeedbackMessage.                      *)
(*                                                                         *)
(* The specifications share the variables:                                 *)
(*   Spec          concurrent SendPayload callers on the push client;      *)
(*   SpecLive      Spec under fair scheduling of the callers;              *)
(*   SpecFeedback  StartListening and its goroutine on the feedback client;*)
(*   SpecConn      connect and shutdown called in any order on a client;   *)
(*   SpecCodec     parseAppleFeedbackMessage applied to bounded buffers;   *)
(*   SpecStatus    the status switch of SendPayload applied to frames.     *)
(* The push client and the feedback client are two ApnsConn values (made   *)
(* by NewClient and NewFeedbackClient): they share no field, so each       *)
(* specification leaves the other client's part of the state at its        *)
(* constructed value.                                                      *)
(***************************************************************************)
EXTENDS Integers, Sequences, FiniteSets, TLC

(* ------------------------------ bounds -------------------------------- *)

\* number of goroutines calling SendPayload on the push client
NumSenders == 2
\* SendPayload calls made in one run, by all callers together
MaxCalls == 3
\* streams net.Dial opens in one run (dial fails once they are used up)
MaxStreams == 3
\* feedback records the remote writes in one run
MaxRecords == 2
\* longest tail (bytes after the 6-byte header) of a buffer given to the decoder
MaxTail == 3
\* connect() and shutdown() calls made in one run of SpecConn
MaxOps == 6

(* ------------------------- program constants -------------------------- *)

MAX_PAYLOAD_SIZE == 256
\* len(readb) in SendPayload
ReplyBufSize == 6
\* len(readb) in StartListening: 4 + 2 + 32
FeedbackBufSize == 38
\* the retry loop's limit: count < 3
MaxRetries == 3
\* the retry loop's panic test: count == 3
PanicCount == 3
\* a nil *tls.Conn
NilConn == 0

nil == "nil"
\* an unlocked sync.Mutex; a held one carries its holder, a sender 1..NumSenders
Free == 0

Push == "push"
Feedback == "feedback"
Clients == {Push, Feedback}
Senders == 1..NumSenders

(* ------------------------------ state --------------------------------- *)

VARIABLES
  tlsconn,        \* [Clients -> handle]: client.tlsconn, NilConn when nil
  connected,      \* [Clients -> BOOLEAN]: client.connected
  transactionId,  \* [Clients -> uint32 as 16-bit limbs]: client.transactionId
  mu,             \* [Clients -> Free or the sender holding client.mu]
  conns,          \* the streams dialled so far, indexed by handle
  lastio,         \* the last I/O event on the push client's streams
  pc,             \* [Senders -> position in SendPayload]
  arg,            \* [Senders -> the arguments of the call in progress]
  reply,          \* [Senders -> readb[:n] of the call in progress, once read]
  err,            \* [Senders -> the named result err of the call in progress]
  result,         \* [Senders -> what the last call returned]
  calls,          \* SendPayload calls entered so far
  written,        \* the transaction ids of the packets given to Write, in order
  ppc,            \* position of StartListening / its goroutine
  count,          \* the retry loop's counter
  buff_reader,    \* [conn, buf]: the stream bufio wraps and its buffered bytes
  fbwire,         \* bytes the remote wrote on the feedback stream, not yet read
  readb,          \* readb[:n] of the feedback goroutine's last read
  outChan,        \* [closed, msg]: the unbuffered channel and the value offered
  emitted,        \* the messages the consumer received, in order
  sentRecs,       \* the records the remote wrote, in order
  panicked,       \* the value the feedback goroutine panicked with, or nil
  parseIn,        \* SpecCodec: the buffer given to the decoder
  parseOut,       \* SpecCodec: what the decoder returned
  frameIn,        \* SpecStatus: readb[:n], the reply frame the status switch is given
  frameOut,       \* SpecStatus: the error the status switch returns
  lastop,         \* SpecConn: the last connect() or shutdown() call and what it returned
  opcount         \* SpecConn: the connect() and shutdown() calls made so far

connVars == <<tlsconn, connected, transactionId, mu, conns>>
sendVars == <<lastio, pc, arg, reply, err, result, calls, written>>
sendVarsButPc == <<lastio, arg, reply, err, result, calls, written>>
pollVars == <<ppc, count, buff_reader, fbwire, readb, outChan, emitted, sentRecs, panicked>>
codecVars == <<parseIn, parseOut>>
statusVars == <<frameIn, frameOut>>
opVars == <<lastop, opcount>>
vars == <<connVars, sendVars, pollVars, codecVars, statusVars, opVars>>

(* --------------------------- unsigned 32-bit -------------------------- *)

\* a uint32 as two 16-bit limbs (the model checker's integers are 32-bit signed)
U32(hi, lo) == [hi |-> hi, lo |-> lo]
U32Zero == U32(0, 0)

\* the increment as it would be if it left the counter as it is
U32IncLost(x) == x

\* client.transactionId++ on a uint32: wraps at 2^32
U32Inc(x) ==
  IF x.lo = 65535 THEN U32((x.hi + 1) % 65536, 0) ELSE U32(x.hi, x.lo + 1)

(* ------------------------ connect and shutdown ------------------------ *)

\* The connection state connect and shutdown work on.
World == [tlsconn |-> tlsconn, connected |-> connected, conns |-> conns]

\* tlsconn.Close() on a stream that is already closed
ErrClosed == "use of closed network connection"
ErrDial == "dial failed"
ErrHandshake == "handshake failed"

\* shutdown as it would be if it closed the stream and left client.connected set
shutdownLeavesConnected(w, c) ==
  LET h == w.tlsconn[c] IN
  IF h # NilConn
  THEN [w   |-> [w EXCEPT !.conns[h].open = FALSE],
        err |-> IF w.conns[h].open THEN nil ELSE ErrClosed]
  ELSE [w |-> w, err |-> nil]

\* shutdown as it would be if it dropped the error of Close
shutdownSwallowsError(w, c) ==
  LET h == w.tlsconn[c] IN
  IF h # NilConn
  THEN [w   |-> [w EXCEPT !.conns[h].open = FALSE, !.connected[c] = FALSE],
        err |-> nil]
  ELSE [w |-> w, err |-> nil]

\* func (client *ApnsConn) shutdown() (err error)
shutdown(w, c) ==
  LET h == w.tlsconn[c] IN
  IF h # NilConn
  THEN [w   |-> [w EXCEPT !.conns[h].open = FALSE, !.connected[c] = FALSE],
        err |-> IF w.conns[h].open THEN nil ELSE ErrClosed]
  ELSE [w |-> w, err |-> nil]

\* connect as it would be if it dialled without closing the handle it holds
connectLeavesStaleOpen(w, c, dialOk, hsOk) ==
  IF w.connected[c] THEN [w |-> w, err |-> nil]
  ELSE
    IF ~dialOk THEN [w |-> w, err |-> ErrDial]
    ELSE
      LET h  == Len(w.conns) + 1
          w2 == [w EXCEPT !.tlsconn[c] = h,
                          !.conns = Append(@, [owner |-> c, open |-> TRUE, answered |-> TRUE,
                                               hs |-> hsOk, failed |-> FALSE, eof |-> FALSE])]
      IN IF hsOk
         THEN [w |-> [w2 EXCEPT !.connected[c] = TRUE], err |-> nil]
         ELSE [w |-> w2, err |-> ErrHandshake]

\* connect() up to the return of net.Dial (lines 156-170): done says that connect
\* returns here (already connected, or the dial failed); otherwise the new
\* stream is the client's handle and the handshake is still to run.
dial(w, c, dialOk) ==
  IF w.connected[c] THEN [w |-> w, err |-> nil, done |-> TRUE]
  ELSE
    LET w1 == IF w.tlsconn[c] # NilConn THEN shutdown(w, c).w ELSE w IN
    IF ~dialOk THEN [w |-> w1, err |-> ErrDial, done |-> TRUE]
    ELSE
      LET h == Len(w1.conns) + 1 IN
      [w |-> [w1 EXCEPT !.tlsconn[c] = h,
                        !.conns = Append(@, [owner |-> c, open |-> TRUE, answered |-> FALSE,
                                             hs |-> FALSE, failed |-> FALSE, eof |-> FALSE])],
       err |-> nil, done |-> FALSE]

\* the remote answers the handshake on stream h (or the stream breaks): from now
\* on Handshake can return
answer(w, h) == [w EXCEPT !.conns[h].answered = TRUE]

\* connect() from the return of Handshake (lines 172-178); hsOk is whether the
\* handshake succeeded
handshake(w, c, hsOk) ==
  LET h == w.tlsconn[c] IN
  IF hsOk
  THEN [w |-> [w EXCEPT !.conns[h].hs = TRUE, !.connected[c] = TRUE], err |-> nil]
  ELSE [w |-> w, err |-> ErrHandshake]

\* func (client *ApnsConn) connect() (err error), from call to return; dialOk and
\* hsOk are what net.Dial and Handshake do this time.
connect(w, c, dialOk, hsOk) ==
  LET d == dial(w, c, dialOk) IN
  IF d.done THEN [w |-> d.w, err |-> d.err]
  ELSE handshake(answer(d.w, d.w.tlsconn[c]), c, hsOk)

\* net.Dial can succeed only while the run's streams are not used up.
DialOutcomes(w) == IF Len(w.conns) < MaxStreams THEN BOOLEAN ELSE {FALSE}

SetWorld(w) ==
  /\ tlsconn' = w.tlsconn
  /\ connected' = w.connected
  /\ conns' = w.conns

(* ------------------------------ codec --------------------------------- *)

HexDigits == <<"0", "1", "2", "3", "4", "5", "6", "7", "8", "9", "a", "b", "c", "d", "e", "f">>

\* hex.EncodeToString: two lowercase digits per byte
RECURSIVE Hex(_)
Hex(bytes) ==
  IF bytes = <<>> THEN ""
  ELSE HexDigits[(Head(bytes) \div 16) + 1] \o HexDigits[(Head(bytes) % 16) + 1] \o Hex(Tail(bytes))

\* var errText = map[uint8]string{...}
EnumeratedStatus == {0, 1, 2, 3, 4, 5, 6, 7, 8, 255}
errText ==
  [s \in EnumeratedStatus |->
     CASE s = 0 -> "No errors encountered"
       [] s = 1 -> "Processing Errors"
       [] s = 2 -> "Missing Device Token"
       [] s = 3 -> "Missing Topic"
       [] s = 4 -> "Missing Payload"
       [] s = 5 -> "Invalid Token Size"
       [] s = 6 -> "Invalid Topic Size"
       [] s = 7 -> "Invalid Payload Size"
       [] s = 8 -> "Invalid Token"
       [] s = 255 -> "None (Unknown)"]

\* createCommandOnePacket: the fields bwrite writes, in order. The clock reads 0,
\* so expirationTime is the expiration itself; lengths are cast to uint16.
createCommandOnePacket(tid, expiration, token, payload) ==
  [command |-> 1, transactionId |-> tid, expirationTime |-> expiration,
   tokenLen |-> Len(token) % 65536, token |-> token,
   payloadLen |-> Len(payload) % 65536, payload |-> payload]

(* ----------------------- parseAppleFeedbackMessage --------------------- *)

\* binary.Read(r, binary.BigEndian, &msg.Time_t): Time_t is an int32
Int32BE(b1, b2, b3, b4) ==
  (IF b1 >= 128 THEN b1 - 256 ELSE b1) * 16777216 + b2 * 65536 + b3 * 256 + b4

\* binary.Read(r, binary.BigEndian, &size): size is an int16
Int16BE(b1, b2) ==
  LET u == b1 * 256 + b2 IN IF u >= 32768 THEN u - 65536 ELSE u

ErrNotEnough == "Not enough data in slice"
ErrTooBig == "The Message size for the DeviceToken is bigger than the given buffer"
PanicSlice == "runtime error: slice bounds out of range"
PanicRetries == "Failed reconnecting more than 3 times to the feedback service"
NoMsg == [Time_t |-> 0, DeviceToken |-> ""]

\* func parseAppleFeedbackMessage(readb []byte) (*ApnsFeedbackMessage, error).
\* kind "ok": (msg, nil); kind "err": (nil, err); kind "panic": the slice
\* expression readb[6 : 6+int(size)] panics when 6+size < 6, and does not return.
parseAppleFeedbackMessage(rb) ==
  IF Len(rb) < 6
  THEN [kind |-> "err", msg |-> NoMsg, err |-> ErrNotEnough]
  ELSE
    LET Time_t == Int32BE(rb[1], rb[2], rb[3], rb[4])
        size   == Int16BE(rb[5], rb[6])
    IN IF 6 + size > Len(rb)
       THEN [kind |-> "err", msg |-> NoMsg, err |-> ErrTooBig]
       ELSE IF 6 + size < 6
       THEN [kind |-> "panic", msg |-> NoMsg, err |-> PanicSlice]
       ELSE [kind |-> "ok",
             msg  |-> [Time_t |-> Time_t, DeviceToken |-> Hex(SubSeq(rb, 7, 6 + size))],
             err  |-> nil]

(* ---------------------------- SendPayload ----------------------------- *)

\* fmt.Sprintf with no verb for its argument appends the argument as EXTRA
ErrTooLarge == "The payload exceeds maximum allowed%!(EXTRA int=256)"
ErrWrite == "write failed"
ErrRead == "read failed"
TransportErrs == {ErrWrite, ErrRead}

\* the payloads a caller passes: exactly the maximum, and one byte over
PayloadLens == {MAX_PAYLOAD_SIZE, MAX_PAYLOAD_SIZE + 1}
Payload(n) == [i \in 1..n |-> 0]
Token == <<171, 205>>
\* outside a call a caller holds no arguments; inside one, no result yet
NoArg == [token |-> <<>>, payload |-> <<>>, expiration |-> 0]
Pending == "pending"

\* the error-response frames the remote may answer with (command 8, a status,
\* the echoed transaction id), as one Read returns them: 1, 2 or 6 bytes
Replies == {<<8>>, <<8, 0>>, <<8, 8>>, <<8, 9>>, <<8, 255, 0, 0, 0, 1>>}

\* the size check as it would be if it let one byte too many through
tooLargeOffByOne(payload) == Len(payload) > MAX_PAYLOAD_SIZE + 1

\* len(payload) > client.MAX_PAYLOAD_SIZE
tooLarge(payload) == Len(payload) > MAX_PAYLOAD_SIZE

\* the lock as it would be if Lock never waited
lockNeverWaits(c) == c \in Clients

\* client.mu.Lock() returns once no one holds the lock
lockAvailable(c) == mu[c] = Free

\* the deferred func as it would be if it shut down on transport errors only
deferredShutdownOnTransport(w, c, e) == IF e \in TransportErrs THEN shutdown(w, c).w ELSE w

\* the deferred func: if err != nil { client.shutdown() }
\* the deferred func as it would be if it skipped the shutdown after a failed
\* handshake
deferredShutdownUnlessHandshake(w, c, e) ==
  IF e # nil /\ e # ErrHandshake THEN shutdown(w, c).w ELSE w

\* the deferred func as it would be if it never shut the connection down
deferredShutdownNever(w, c, e) == w

deferredShutdown(w, c, e) == IF e # nil THEN shutdown(w, c).w ELSE w

\* the error branch as it would be if a timeout were returned like any other error
afterReadErrorKeepsTimeout(timeout, e) == IF timeout THEN "i/o timeout" ELSE e

\* the error branch after Read: a net.Error timeout becomes nil, anything else stays
afterReadError(timeout, e) == IF timeout THEN nil ELSE e

\* if n > 1 { switch status ... }: the result of a read of rb = readb[:n]
\* the status switch as it would be if it took the command byte for the status
statusResultOfCommandByte(rb) ==
  IF Len(rb) > 1
  THEN LET status == rb[1] IN
       CASE status = 0 -> nil
         [] status \in EnumeratedStatus \ {0} -> errText[status]
         [] OTHER -> "Unknown error code " \o Hex(rb) \o " "
  ELSE nil

statusResult(rb) ==
  IF Len(rb) > 1
  THEN LET status == rb[2] IN
       CASE status = 0 -> nil
         [] status \in {1, 2, 3, 4, 5, 6, 7, 8, 255} -> errText[status]
         [] OTHER -> "Unknown error code " \o Hex(rb) \o " "
  ELSE nil

Event(op, t, h, data) == [op |-> op, by |-> t, conn |-> h, data |-> data]

\* a caller enters SendPayload(token, payload, expiration)
Call(t) ==
  /\ pc[t] = "idle"
  /\ calls < MaxCalls
  /\ calls' = calls + 1
  /\ \E n \in PayloadLens :
       arg' = [arg EXCEPT ![t] = [token |-> Token, payload |-> Payload(n), expiration |-> 0]]
  /\ result' = [result EXCEPT ![t] = Pending]
  /\ pc' = [pc EXCEPT ![t] = "entry"]
  /\ UNCHANGED <<connVars, lastio, reply, err, written, pollVars, codecVars, statusVars, opVars>>

\* lines 287-289: the size check, before the lock is taken
SizeCheck(t) ==
  /\ pc[t] = "entry"
  /\ IF tooLarge(arg[t].payload)
     THEN /\ result' = [result EXCEPT ![t] = ErrTooLarge]
          /\ arg' = [arg EXCEPT ![t] = NoArg]
          /\ pc' = [pc EXCEPT ![t] = "idle"]
     ELSE /\ pc' = [pc EXCEPT ![t] = "lock"]
          /\ UNCHANGED <<result, arg>>
  /\ UNCHANGED <<connVars, lastio, reply, err, calls, written, pollVars, codecVars, statusVars, opVars>>

\* line 291: client.mu.Lock()
Lock(t) ==
  /\ pc[t] = "lock"
  /\ lockAvailable(Push)
  /\ mu' = [mu EXCEPT ![Push] = t]
  /\ err' = [err EXCEPT ![t] = nil]
  /\ pc' = [pc EXCEPT ![t] = "connect"]
  /\ UNCHANGED <<tlsconn, connected, transactionId, conns, lastio, arg, reply, result,
                 calls, written, pollVars, codecVars, statusVars, opVars>>

\* lines 300-312, once connect() has returned e: the call returns e, or goes on
\* to transactionId++ and the packet
afterConnect(t, e) ==
  /\ err' = [err EXCEPT ![t] = e]
  /\ IF e # nil
     THEN /\ pc' = [pc EXCEPT ![t] = "defer"]
          /\ UNCHANGED transactionId
     ELSE /\ pc' = [pc EXCEPT ![t] = "write"]
          /\ transactionId' = [transactionId EXCEPT ![Push] = U32Inc(@)]

\* line 300: client.connect() up to the return of net.Dial
Connect(t) ==
  /\ pc[t] = "connect"
  /\ \E dialOk \in DialOutcomes(World) :
       LET d == dial(World, Push, dialOk) IN
       /\ SetWorld(d.w)
       /\ IF d.done
          THEN afterConnect(t, d.err)
          ELSE /\ pc' = [pc EXCEPT ![t] = "handshake"]
               /\ UNCHANGED <<err, transactionId>>
  /\ UNCHANGED <<mu, lastio, arg, reply, result, calls, written, pollVars, codecVars, statusVars, opVars>>

\* line 300: client.tlsconn.Handshake() returns, which it can only once the
\* remote has answered; then the rest of connect()
Handshake(t) ==
  /\ pc[t] = "handshake"
  /\ conns[tlsconn[Push]].answered
  /\ \E hsOk \in BOOLEAN :
       LET r == handshake(World, Push, hsOk) IN
       /\ SetWorld(r.w)
       /\ afterConnect(t, r.err)
  /\ UNCHANGED <<mu, lastio, arg, reply, result, calls, written, pollVars, codecVars, statusVars, opVars>>

\* lines 314-318: client.tlsconn.Write(pkt)
Write(t) ==
  /\ pc[t] = "write"
  /\ LET pkt == createCommandOnePacket(transactionId[Push], arg[t].expiration,
                                       arg[t].token, arg[t].payload)
     IN /\ written' = Append(written, pkt.transactionId)
        /\ \E ok \in BOOLEAN :
               IF ok
               THEN /\ lastio' = Event("write", t, tlsconn[Push], pkt.transactionId)
                    /\ pc' = [pc EXCEPT ![t] = "read"]
                    /\ UNCHANGED <<err, conns>>
               ELSE /\ lastio' = Event("writefail", t, tlsconn[Push], pkt.transactionId)
                    /\ conns' = [conns EXCEPT ![tlsconn[Push]].failed = TRUE]
                    /\ err' = [err EXCEPT ![t] = ErrWrite]
                    /\ pc' = [pc EXCEPT ![t] = "defer"]
  /\ UNCHANGED <<tlsconn, connected, transactionId, mu, arg, reply, result, calls,
                 pollVars, codecVars, statusVars, opVars>>

\* lines 321-334: the reply read ends with an error (a timeout or another one)
ReadError(t) ==
  /\ pc[t] = "read"
  /\ \E timeout \in BOOLEAN :
       /\ lastio' = Event(IF timeout THEN "timeout" ELSE "readfail", t, tlsconn[Push], <<>>)
       /\ conns' = [conns EXCEPT ![tlsconn[Push]].failed = @ \/ ~timeout]
       /\ err' = [err EXCEPT ![t] = afterReadError(timeout, ErrRead)]
  /\ pc' = [pc EXCEPT ![t] = "defer"]
  /\ UNCHANGED <<tlsconn, connected, transactionId, mu, arg, reply, result, calls, written,
                 pollVars, codecVars, statusVars, opVars>>

\* lines 325, 336-350: the reply read returns n >= 1 bytes
ReadReply(t) ==
  /\ pc[t] = "read"
  /\ \E rb \in Replies :
       /\ lastio' = Event("read", t, tlsconn[Push], rb)
       /\ reply' = [reply EXCEPT ![t] = rb]
       /\ err' = [err EXCEPT ![t] = statusResult(rb)]
  /\ pc' = [pc EXCEPT ![t] = "defer"]
  /\ UNCHANGED <<connVars, arg, result, calls, written, pollVars, codecVars, statusVars, opVars>>

\* lines 293-297: the deferred func runs on every return after the lock
Deferred(t) ==
  /\ pc[t] = "defer"
  /\ SetWorld(deferredShutdown(World, Push, err[t]))
  /\ pc' = [pc EXCEPT ![t] = "unlock"]
  /\ UNCHANGED <<transactionId, mu, sendVarsButPc, pollVars, codecVars, statusVars, opVars>>

\* line 292: the deferred client.mu.Unlock(), then the call returns err
Unlock(t) ==
  /\ pc[t] = "unlock"
  /\ mu' = [mu EXCEPT ![Push] = Free]
  /\ result' = [result EXCEPT ![t] = err[t]]
  /\ err' = [err EXCEPT ![t] = nil]
  /\ arg' = [arg EXCEPT ![t] = NoArg]
  /\ reply' = [reply EXCEPT ![t] = <<>>]
  /\ pc' = [pc EXCEPT ![t] = "idle"]
  /\ UNCHANGED <<tlsconn, connected, transactionId, conns, lastio, calls, written,
                 pollVars, codecVars, statusVars, opVars>>

SendPayload(t) ==
  \/ Call(t)
  \/ SizeCheck(t)
  \/ Lock(t)
  \/ Connect(t)
  \/ Handshake(t)
  \/ Write(t)
  \/ ReadError(t)
  \/ ReadReply(t)
  \/ Deferred(t)
  \/ Unlock(t)

\* the remote end answers the handshake a call is waiting in
RemoteAnswer ==
  /\ \E t \in Senders : pc[t] = "handshake"
  /\ ~conns[tlsconn[Push]].answered
  /\ SetWorld(answer(World, tlsconn[Push]))
  /\ UNCHANGED <<transactionId, mu, sendVars, pollVars, codecVars, statusVars, opVars>>

(* --------------------------- StartListening --------------------------- *)

\* the feedback records the remote writes: a time and a device token
FeedbackRecords ==
  {[time |-> <<0, 0, 0, 1>>, token |-> <<>>],
   [time |-> <<0, 0, 0, 2>>, token |-> <<255, 255>>]}

\* the wire format of one record: u32 time | u16 tokenLen | token
EncodeFeedback(rec) ==
  rec.time \o <<Len(rec.token) \div 256, Len(rec.token) % 256>> \o rec.token

Min(a, b) == IF a < b THEN a ELSE b

\* lines 105-106 and 111-112: close(outChan); panic(err)
closeAndPanic(e) ==
  /\ outChan' = [outChan EXCEPT !.closed = TRUE]
  /\ panicked' = e
  /\ ppc' = "panic"

\* lines 63-69: make(chan), client.connect(), panic(err) when it fails
StartListening ==
  /\ ppc = "idle"
  /\ \E dialOk \in DialOutcomes(World), hsOk \in BOOLEAN :
       LET r == connect(World, Feedback, dialOk, hsOk) IN
       /\ SetWorld(r.w)
       /\ IF r.err # nil
          THEN ppc' = "panic" /\ panicked' = r.err
          ELSE ppc' = "go" /\ UNCHANGED panicked
  /\ UNCHANGED <<transactionId, mu, sendVars, count, buff_reader, fbwire, readb, outChan,
                 emitted, sentRecs, codecVars, statusVars, opVars>>

\* lines 71-77: the goroutine starts: no read deadline, a bufio.Reader on client.tlsconn
GoStart ==
  /\ ppc = "go"
  /\ buff_reader' = [conn |-> tlsconn[Feedback], buf |-> <<>>]
  /\ ppc' = "read"
  /\ UNCHANGED <<connVars, sendVars, count, fbwire, readb, outChan, emitted, sentRecs,
                 panicked, codecVars, statusVars, opVars>>

\* line 80 with bytes to return: bufio hands out what it holds, and when it holds
\* nothing reads the stream once (any nonempty part of what has arrived) first
ReadBytes ==
  /\ ppc = "read"
  /\ \/ /\ buff_reader.buf # <<>>
        /\ LET n == Min(FeedbackBufSize, Len(buff_reader.buf)) IN
           /\ readb' = SubSeq(buff_reader.buf, 1, n)
           /\ buff_reader' = [buff_reader EXCEPT !.buf = SubSeq(@, n + 1, Len(@))]
        /\ UNCHANGED fbwire
     \/ /\ buff_reader.buf = <<>>
        /\ conns[buff_reader.conn].open
        /\ \E k \in 1..Len(fbwire) :
             LET n == Min(FeedbackBufSize, k) IN
             /\ readb' = SubSeq(fbwire, 1, n)
             /\ buff_reader' = [buff_reader EXCEPT !.buf = SubSeq(fbwire, n + 1, k)]
             /\ fbwire' = SubSeq(fbwire, k + 1, Len(fbwire))
  /\ ppc' = "parse"
  /\ UNCHANGED <<connVars, sendVars, count, outChan, emitted, sentRecs, panicked, codecVars, statusVars, opVars>>

\* line 80 with err == io.EOF: the remote closed and everything it wrote was read,
\* or the stream was closed here (then the read ends with EOF or another error)
ReadEOF ==
  /\ ppc = "read"
  /\ buff_reader.buf = <<>>
  /\ \/ conns[buff_reader.conn].open /\ conns[buff_reader.conn].eof /\ fbwire = <<>>
     \/ ~conns[buff_reader.conn].open
  /\ count' = 0
  /\ ppc' = "shutdown"
  /\ UNCHANGED <<connVars, sendVars, buff_reader, fbwire, readb, outChan, emitted, sentRecs,
                 panicked, codecVars, statusVars, opVars>>

\* lines 104-106: any other read error
ReadFail ==
  /\ ppc = "read"
  /\ buff_reader.buf = <<>>
  /\ closeAndPanic(ErrRead)
  /\ UNCHANGED <<connVars, sendVars, count, buff_reader, fbwire, readb, emitted, sentRecs,
                 codecVars, statusVars, opVars>>

\* lines 109-115: decode readb[:n]; send the message, or close and panic
Parse ==
  /\ ppc = "parse"
  /\ LET r == parseAppleFeedbackMessage(readb) IN
     CASE r.kind = "ok" ->
            /\ outChan' = [outChan EXCEPT !.msg = r.msg]
            /\ ppc' = "send"
            /\ UNCHANGED panicked
       [] r.kind = "err" -> closeAndPanic(r.err)
       [] r.kind = "panic" ->
            /\ panicked' = r.err
            /\ ppc' = "panic"
            /\ UNCHANGED outChan
  /\ UNCHANGED <<connVars, sendVars, count, buff_reader, fbwire, readb, emitted, sentRecs,
                 codecVars, statusVars, opVars>>

\* line 114: outChan <- msg completes when the consumer receives
Send ==
  /\ ppc = "send"
  /\ emitted' = Append(emitted, outChan.msg)
  /\ outChan' = [outChan EXCEPT !.msg = NoMsg]
  /\ ppc' = "read"
  /\ UNCHANGED <<connVars, sendVars, count, buff_reader, fbwire, readb, sentRecs, panicked,
                 codecVars, statusVars, opVars>>

\* lines 83-86: client.shutdown(), its error only logged
RetryShutdown ==
  /\ ppc = "shutdown"
  /\ SetWorld(shutdown(World, Feedback).w)
  /\ ppc' = "sleep"
  /\ UNCHANGED <<transactionId, mu, sendVars, count, buff_reader, fbwire, readb, outChan,
                 emitted, sentRecs, panicked, codecVars, statusVars, opVars>>

\* lines 88-90: time.Sleep(time.Second * 30)
RetrySleep ==
  /\ ppc = "sleep"
  /\ ppc' = "connect"
  /\ UNCHANGED <<connVars, sendVars, count, buff_reader, fbwire, readb, outChan, emitted,
                 sentRecs, panicked, codecVars, statusVars, opVars>>

\* what follows a failed connect: the test of line 100, then count += 1 and the
\* loop test count < 3 of line 82; leaving the loop goes back to the read of line 80
afterFailedConnect(cnt) ==
  IF cnt = PanicCount THEN [ppc |-> "panic", count |-> cnt]
  ELSE IF cnt + 1 < MaxRetries THEN [ppc |-> "shutdown", count |-> cnt + 1]
  ELSE [ppc |-> "read", count |-> cnt + 1]

\* the reconnect as it would be if it kept the bufio.Reader of the closed stream
RetryConnectKeepsReader ==
  /\ ppc = "connect"
  /\ \E dialOk \in DialOutcomes(World), hsOk \in BOOLEAN :
       LET r == connect(World, Feedback, dialOk, hsOk) IN
       /\ SetWorld(r.w)
       /\ IF r.err = nil
          THEN /\ ppc' = "read"
               /\ UNCHANGED <<count, panicked>>
          ELSE LET a == afterFailedConnect(count) IN
               /\ ppc' = a.ppc
               /\ count' = a.count
               /\ panicked' = IF a.ppc = "panic" THEN PanicRetries ELSE panicked
  /\ UNCHANGED <<buff_reader, fbwire>>
  /\ UNCHANGED <<transactionId, mu, sendVars, readb, outChan, emitted, sentRecs, codecVars, statusVars, opVars>>

\* lines 91-103: client.connect(); on success a new bufio.Reader and break
RetryConnect ==
  /\ ppc = "connect"
  /\ \E dialOk \in DialOutcomes(World), hsOk \in BOOLEAN :
       LET r == connect(World, Feedback, dialOk, hsOk) IN
       /\ SetWorld(r.w)
       /\ IF r.err = nil
          THEN /\ buff_reader' = [conn |-> r.w.tlsconn[Feedback], buf |-> <<>>]
               /\ fbwire' = <<>>
               /\ ppc' = "read"
               /\ UNCHANGED <<count, panicked>>
          ELSE LET a == afterFailedConnect(count) IN
               /\ ppc' = a.ppc
               /\ count' = a.count
               /\ panicked' = IF a.ppc = "panic" THEN PanicRetries ELSE panicked
               /\ UNCHANGED <<buff_reader, fbwire>>
  /\ UNCHANGED <<transactionId, mu, sendVars, readb, outChan, emitted, sentRecs, codecVars, statusVars, opVars>>

\* the stream the feedback service writes on: the one the goroutine reads, while
\* it is connected and the remote has not closed it
RemoteCanWrite ==
  /\ ppc \notin {"idle", "go", "panic"}
  /\ connected[Feedback]
  /\ buff_reader.conn = tlsconn[Feedback]
  /\ ~conns[tlsconn[Feedback]].eof

\* the feedback service writes one record
RemoteSend ==
  /\ RemoteCanWrite
  /\ Len(sentRecs) < MaxRecords
  /\ \E rec \in FeedbackRecords :
       /\ fbwire' = fbwire \o EncodeFeedback(rec)
       /\ sentRecs' = Append(sentRecs, rec)
  /\ UNCHANGED <<connVars, sendVars, ppc, count, buff_reader, readb, outChan, emitted,
                 panicked, codecVars, statusVars, opVars>>

\* the feedback service closes the stream
RemoteClose ==
  /\ RemoteCanWrite
  /\ conns' = [conns EXCEPT ![tlsconn[Feedback]].eof = TRUE]
  /\ UNCHANGED <<tlsconn, connected, transactionId, mu, sendVars, pollVars, codecVars, statusVars, opVars>>

NextFeedback ==
  \/ StartListening
  \/ GoStart
  \/ ReadBytes
  \/ ReadEOF
  \/ ReadFail
  \/ Parse
  \/ Send
  \/ RetryShutdown
  \/ RetrySleep
  \/ RetryConnect
  \/ RemoteSend
  \/ RemoteClose

(* ------------------------- decoding bounded buffers ------------------- *)

\* the buffers the decoder is applied to: a time, the two length bytes, a tail of
\* at most MaxTail bytes, and every prefix of such a buffer; with them the buffers
\* of Test_parseAppleFeedbackMessage
Times == {<<0, 0, 0, 0>>, <<0, 0, 0, 2>>, <<128, 0, 0, 0>>, <<255, 255, 255, 255>>}
LenHi == {0, 1, 128, 255}
LenLo == {0, 1, 3, 255}
TailBytes == {10, 11, 12}
Tails == UNION {[1..n -> TailBytes] : n \in 0..MaxTail}
FullBuffers == {tm \o <<hi, lo>> \o tl : tm \in Times, hi \in LenHi, lo \in LenLo, tl \in Tails}
TestBuffers ==
  {<<>>, <<0>>, <<0, 0, 0, 0, 1, 0, 65, 66, 67>>, <<0, 0, 0, 0, 0, 3, 10, 11, 12>>}
Buffers == UNION {{SubSeq(b, 1, n) : n \in 0..Len(b)} : b \in FullBuffers} \cup TestBuffers

NoResult == [kind |-> "none", msg |-> NoMsg, err |-> nil]

\* one call parseAppleFeedbackMessage(parseIn)
Decode ==
  /\ parseOut = NoResult
  /\ parseOut' = parseAppleFeedbackMessage(parseIn)
  /\ UNCHANGED <<connVars, sendVars, pollVars, parseIn, statusVars, opVars>>

NextCodec == Decode

(* ------------------------- the status of reply frames ----------------- *)

\* the reply frames the status switch is applied to: readb[:n] for n of 1, 2 and
\* ReplyBufSize bytes, every status byte, and a command byte that is or is not 8
FrameCommands == {0, 8}
FrameStatuses == 0..255
FrameIds == {<<>>, <<0, 0, 0, 1>>, <<255, 255, 255, 255>>}
Frames ==
  {<<cmd>> : cmd \in FrameCommands}
    \cup {<<cmd, st>> \o id : cmd \in FrameCommands, st \in FrameStatuses, id \in FrameIds}

\* the part of SendPayload after a Read of n > 0 bytes: what it returns for
\* readb[:n] = frameIn
ReplyStatus ==
  /\ frameOut = Pending
  /\ frameOut' = statusResult(frameIn)
  /\ UNCHANGED <<connVars, sendVars, pollVars, codecVars, frameIn, opVars>>

NextStatus == ReplyStatus

(* ------------------- connect and shutdown, any caller ----------------- *)

\* connect() and shutdown() are the only code that assigns client.tlsconn and
\* client.connected (SendPayload and StartListening reach them only through
\* these two calls), so every sequence of calls of the two, on either client and
\* with every outcome of net.Dial and Handshake, covers what the callers can do
\* to the connection state.
NoOp == [op |-> "none", client |-> Push, err |-> nil]

\* one call client.connect() on client c
CallConnect(c) ==
  /\ opcount < MaxOps
  /\ \E dialOk \in DialOutcomes(World), hsOk \in BOOLEAN :
       LET r == connect(World, c, dialOk, hsOk) IN
       /\ SetWorld(r.w)
       /\ lastop' = [op |-> "connect", client |-> c, err |-> r.err]
  /\ opcount' = opcount + 1
  /\ UNCHANGED <<transactionId, mu, sendVars, pollVars, codecVars, statusVars>>

\* one call client.shutdown() on client c
CallShutdown(c) ==
  /\ opcount < MaxOps
  /\ LET r == shutdown(World, c) IN
     /\ SetWorld(r.w)
     /\ lastop' = [op |-> "shutdown", client |-> c, err |-> r.err]
  /\ opcount' = opcount + 1
  /\ UNCHANGED <<transactionId, mu, sendVars, pollVars, codecVars, statusVars>>

NextConn == \E c \in Clients : CallConnect(c) \/ CallShutdown(c)

(* ------------------------- the constructed state ---------------------- *)

\* NewClient: tlsconn nil, connected false; the zero values of the rest
InitConn ==
  /\ tlsconn = [c \in Clients |-> NilConn]
  /\ connected = [c \in Clients |-> FALSE]
  /\ transactionId = [c \in Clients |-> U32Zero]
  /\ mu = [c \in Clients |-> Free]
  /\ conns = <<>>

InitSend ==
  /\ lastio = Event("none", Free, NilConn, <<>>)
  /\ pc = [t \in Senders |-> "idle"]
  /\ arg = [t \in Senders |-> NoArg]
  /\ reply = [t \in Senders |-> <<>>]
  /\ err = [t \in Senders |-> nil]
  /\ result = [t \in Senders |-> nil]
  /\ calls = 0
  /\ written = <<>>

InitPoll ==
  /\ ppc = "idle"
  /\ count = 0
  /\ buff_reader = [conn |-> NilConn, buf |-> <<>>]
  /\ fbwire = <<>>
  /\ readb = <<>>
  /\ outChan = [closed |-> FALSE, msg |-> NoMsg]
  /\ emitted = <<>>
  /\ sentRecs = <<>>
  /\ panicked = nil

InitCodec ==
  /\ parseIn = <<>>
  /\ parseOut = NoResult

InitStatus ==
  /\ frameIn = <<>>
  /\ frameOut = Pending

InitOps ==
  /\ lastop = NoOp
  /\ opcount = 0

Init == InitConn /\ InitSend /\ InitPoll /\ InitCodec /\ InitStatus /\ InitOps

Next == (\E t \in Senders : SendPayload(t)) \/ RemoteAnswer

Spec == Init /\ [][Next]_vars

\* Spec under fair scheduling of the callers' goroutines. Every step a call can
\* take by itself, or that the runtime bounds, is eventually taken: the size
\* check, the dial (the system's connect timeout), the write, the end of the
\* reply read (SetReadDeadline), the deferred calls. A call waiting for the lock
\* gets it if the lock is free again and again (strong fairness: the lock is
\* not free continuously). Handshake is taken once the remote has answered; the
\* remote itself owes nothing, so RemoteAnswer carries no fairness.
Fairness(t) ==
  /\ WF_vars(SizeCheck(t))
  /\ SF_vars(Lock(t))
  /\ WF_vars(Connect(t))
  /\ WF_vars(Handshake(t))
  /\ WF_vars(Write(t))
  /\ WF_vars(ReadError(t) \/ ReadReply(t))
  /\ WF_vars(Deferred(t))
  /\ WF_vars(Unlock(t))

SpecLive == Init /\ [][Next]_vars /\ \A t \in Senders : Fairness(t)

SpecFeedback == Init /\ [][NextFeedback]_vars

InitDecode ==
  /\ InitConn /\ InitSend /\ InitPoll /\ InitStatus /\ InitOps
  /\ parseIn \in Buffers
  /\ parseOut = NoResult

SpecCodec == InitDecode /\ [][NextCodec]_vars

InitFrame ==
  /\ InitConn /\ InitSend /\ InitPoll /\ InitCodec /\ InitOps
  /\ frameIn \in Frames
  /\ frameOut = Pending

SpecStatus == InitFrame /\ [][NextStatus]_vars

SpecConn == Init /\ [][NextConn]_vars

(* ------------------------------ the claims ---------------------------- *)

\* the positions of SendPayload between mu.Lock() and mu.Unlock()
Critical == {"connect", "handshake", "write", "read", "defer", "unlock"}
WriteOps == {"write", "writefail"}
RejectStatuses == {1, 2, 3, 4, 5, 6, 7, 8, 255}

\* C1: a SendPayload call that fails on the packet write or on a non-timeout reply
\* read returns with the client Disconnected and its stream closed; a stream
\* that saw such a failure is the connected stream only until the deferred
\* shutdown of the failing call has run; and every later write goes to a stream
\* that is open, has completed its handshake and has seen no transport failure,
\* so the next call has opened and handshaken a new stream before it writes.
C1_FailedStreamNotReused ==
  /\ [](/\ \A t \in Senders :
             (pc[t] = "unlock" /\ err[t] \in TransportErrs)
               => (~connected[Push] /\ ~conns[tlsconn[Push]].open)
        /\ \A h \in 1..Len(conns) :
             (conns[h].failed /\ connected[Push] /\ tlsconn[Push] = h)
               => \E t \in Senders : pc[t] = "defer" /\ err[t] \in TransportErrs)
  /\ [][(lastio' # lastio /\ lastio'.op \in WriteOps)
          => (/\ connected[Push]
              /\ tlsconn[Push] = lastio'.conn
              /\ conns[lastio'.conn].open
              /\ conns[lastio'.conn].hs
              /\ ~conns[lastio'.conn].failed)]_vars

\* C1 witness: after a stream failed, a packet was written on a newer stream.
C1_Witness ==
  \E h \in 1..Len(conns) :
    /\ conns[h].failed
    /\ lastio.op = "write"
    /\ lastio.conn > h
    /\ conns[lastio.conn].hs

\* C2: when the reply read ends with a timeout, SendPayload is about to return
\* nil once its deferred calls have run, and the connection is not shut down:
\* the client stays Connected on the stream the packet was written to, which
\* stays open, for as long as the timeout is the last I/O on the client.
C2_TimeoutIsSuccess ==
  lastio.op = "timeout" =>
    /\ connected[Push]
    /\ tlsconn[Push] = lastio.conn
    /\ conns[lastio.conn].open
    /\ pc[lastio.by] \in {"defer", "unlock"} => err[lastio.by] = nil

\* C2 witness: a call whose reply read timed out has returned nil.
C2_Witness ==
  \E t \in Senders :
    /\ lastio.op = "timeout" /\ lastio.by = t
    /\ pc[t] = "idle" /\ result[t] = nil
    /\ connected[Push]

\* call t has read a reply of at least 2 bytes with an enumerated nonzero status,
\* has run its deferred func and is about to unlock and return
RejectionReturning(t) ==
  /\ pc[t] = "unlock"
  /\ Len(reply[t]) >= 2
  /\ reply[t][2] \in RejectStatuses

\* C3 as stated: after an error-response frame with an enumerated nonzero status
\* SendPayload returns the rejection and the client is still Connected on the
\* same open stream.
C3_Original ==
  \A t \in Senders :
    RejectionReturning(t) =>
      /\ err[t] = errText[reply[t][2]]
      /\ connected[Push]
      /\ tlsconn[Push] = lastio.conn
      /\ conns[lastio.conn].open

\* C3 amended: after an error-response frame with an enumerated nonzero status
\* SendPayload returns the rejection text of that status, and because the
\* returned error is not nil the deferred shutdown has closed the stream: the
\* client is Disconnected when the call returns.
C3_RejectionShutsDown ==
  \A t \in Senders :
    RejectionReturning(t) =>
      /\ err[t] = errText[reply[t][2]]
      /\ ~connected[Push]
      /\ tlsconn[Push] = lastio.conn
      /\ ~conns[lastio.conn].open

\* C3 witness: a call that read status 8 has returned "Invalid Token".
C3_Witness ==
  \E t \in Senders :
    /\ lastio.op = "read" /\ lastio.by = t /\ lastio.data = <<8, 8>>
    /\ pc[t] = "idle" /\ result[t] = "Invalid Token"

\* C4: once the retry loop has counted 3 failed reconnect attempts after an
\* end-of-stream, the feedback goroutine has terminated with a fatal signal (it
\* is not back at the read, nor in a further retry round).
C4_FatalAfterThreeFailures ==
  count = MaxRetries => ppc = "panic"

\* the message a complete record decodes to
FeedbackMessage(rec) ==
  [Time_t |-> Int32BE(rec.time[1], rec.time[2], rec.time[3], rec.time[4]),
   DeviceToken |-> Hex(rec.token)]

IsPrefix(a, b) == Len(a) <= Len(b) /\ a = SubSeq(b, 1, Len(a))

\* C5: the consumer receives the records the remote wrote, each once and in the
\* order written (what it has received is always a prefix of them), and once
\* the goroutine has read every byte and waits for more, it has emitted them
\* all, however the bytes were split into reads.
C5_EveryRecordEmitted ==
  LET expected == [i \in 1..Len(sentRecs) |-> FeedbackMessage(sentRecs[i])] IN
  /\ IsPrefix(emitted, expected)
  /\ (ppc = "read" /\ fbwire = <<>> /\ buff_reader.buf = <<>>) => emitted = expected

\* C6: at most one SendPayload call at a time is between Lock and Unlock, that
\* call holds the lock, and a call about to read its reply reads right after
\* its own write: the last I/O on the client is that call's write on the
\* client's stream.
C6_OneCycleAtATime ==
  /\ Cardinality({t \in Senders : pc[t] \in Critical}) <= 1
  /\ \A t \in Senders : pc[t] \in Critical => mu[Push] = t
  /\ \A t \in Senders :
       pc[t] = "read" =>
         (lastio.op = "write" /\ lastio.by = t /\ lastio.conn = tlsconn[Push])

\* C6 witness: one caller waits for the lock while another awaits its reply.
C6_Witness ==
  \E t, u \in Senders : t # u /\ pc[t] = "read" /\ pc[u] = "lock"

\* C7: every step that changes a client's stream handle, connected flag or
\* transaction counter is taken while that client's lock is held.
C7_StateChangesUnderLock ==
  [][\A c \in Clients :
       (tlsconn'[c] # tlsconn[c] \/ connected'[c] # connected[c]
          \/ transactionId'[c] # transactionId[c])
         => mu[c] # Free]_vars

\* C8: the step SendPayload takes on a payload longer than MAX_PAYLOAD_SIZE
\* returns the size error and changes nothing else: no dial, handshake, close
\* or write, the lock, the transaction counter, the stream handle and the
\* connected flag are as before.
C8_TooLargeNoEffect ==
  [][\A t \in Senders :
       (pc[t] = "entry" /\ Len(arg[t].payload) > MAX_PAYLOAD_SIZE /\ pc'[t] # pc[t])
         => (/\ pc'[t] = "idle"
             /\ result'[t] = ErrTooLarge
             /\ UNCHANGED <<tlsconn, connected, transactionId, mu, conns, lastio>>)]_vars

\* C8 witness: a call was rejected for its payload size.
C8_Witness ==
  \E t \in Senders : pc[t] = "idle" /\ result[t] = ErrTooLarge

\* C9: when the running feedback goroutine has stopped on a read outcome that
\* is neither end-of-stream nor a decoded record, the output channel is closed.
C9_FatalClosesChannel ==
  (ppc = "panic" /\ buff_reader.conn # NilConn) => outChan.closed

\* the unsigned 16-bit big-endian value of two bytes
U16BE(b1, b2) == b1 * 256 + b2

\* C10: for every buffer that holds no complete record (shorter than 6 bytes,
\* or 6 + the unsigned token length at bytes 4-5 exceeds its length) the
\* decoder returns an error and no record.
C10_IncompleteIsError ==
  (/\ parseOut # NoResult
   /\ (Len(parseIn) < 6 \/ 6 + U16BE(parseIn[5], parseIn[6]) > Len(parseIn)))
    => parseOut.kind = "err"

\* the buffer is exactly one record: 4 time bytes, the unsigned 16-bit token
\* length, and that many token bytes
IsEncodedRecord(b) == Len(b) >= 6 /\ Len(b) = 6 + U16BE(b[5], b[6])

\* C11: decoding a buffer that is exactly u32 timestamp | u16 tokenLen | token
\* succeeds and returns that timestamp as the unsigned number the four bytes
\* spell and the token as the lowercase hex of exactly its tokenLen bytes.
C11_RoundTrip ==
  (parseOut # NoResult /\ IsEncodedRecord(parseIn)) =>
    /\ parseOut.kind = "ok"
    /\ parseOut.msg.Time_t >= 0
    /\ parseOut.msg.Time_t \div 65536 = U16BE(parseIn[1], parseIn[2])
    /\ parseOut.msg.Time_t % 65536 = U16BE(parseIn[3], parseIn[4])
    /\ parseOut.msg.DeviceToken = Hex(SubSeq(parseIn, 7, Len(parseIn)))

\* C12: for a reply frame of at least 2 bytes the result of SendPayload is fixed
\* by the status byte (byte 1): 0 gives success; 1..8 and 255 give the
\* rejection text of the status (8 "Invalid Token", 255 "None (Unknown)"),
\* whatever the other bytes are; any other status gives the unknown-status
\* error carrying the hex of all the bytes read and of nothing else.
C12_StatusDecidesResult ==
  (frameOut # Pending /\ Len(frameIn) >= 2) =>
    LET status == frameIn[2] IN
    /\ status = 0 => frameOut = nil
    /\ status \in RejectStatuses => frameOut = errText[status]
    /\ status = 8 => frameOut = "Invalid Token"
    /\ status = 255 => frameOut = "None (Unknown)"
    /\ status \notin RejectStatuses \cup {0} =>
         frameOut = "Unknown error code " \o Hex(frameIn) \o " "

\* C12 witness: a full 6-byte frame whose status 9 is outside the table has been
\* classified as an unknown status carrying the hex of its 6 bytes.
C12_Witness ==
  /\ frameOut # Pending
  /\ Len(frameIn) = ReplyBufSize
  /\ frameIn[2] = 9
  /\ frameOut = "Unknown error code 0809ffffffff "

\* the stream client c holds is present, completed its handshake and has not
\* been closed by the client
StreamUsable(c) ==
  /\ tlsconn[c] # NilConn
  /\ conns[tlsconn[c]].hs
  /\ conns[tlsconn[c]].open

\* C13: after any sequence of connect and shutdown calls a client's connected
\* flag is set exactly when its stream handle is present, completed its
\* handshake and has not been closed; after a shutdown, and after a connect
\* that failed on dial or handshake, the flag is not set.
C13_ConnectedIffUsable ==
  /\ \A c \in Clients : connected[c] <=> StreamUsable(c)
  /\ lastop.op = "shutdown" => ~connected[lastop.client]
  /\ (lastop.op = "connect" /\ lastop.err # nil) => ~connected[lastop.client]

\* C13 witness: a client that was Connected has been shut down (it still holds
\* the handle of the closed stream) while the other client failed its handshake.
C13_Witness ==
  /\ lastop.op = "shutdown"
  /\ tlsconn[lastop.client] # NilConn
  /\ conns[tlsconn[lastop.client]].hs
  /\ ~conns[tlsconn[lastop.client]].open
  /\ \E c \in Clients : tlsconn[c] # NilConn /\ ~conns[tlsconn[c]].hs

\* the step is a call of connect() or of shutdown()
IsCall(op) == opcount' # opcount /\ lastop'.op = op

\* C14: a connect() call on a Connected client changes nothing and returns nil;
\* on a client that is not Connected it closes the handle the client holds (if
\* any) and no other stream, even when the dial then fails; a failed dial
\* leaves the handle as it was and returns the dial failure; a successful dial
\* makes the new stream the client's handle, and the client ends Connected
\* with nil exactly when the handshake on it succeeded, and otherwise
\* Disconnected with the handshake failure.
C14_ConnectSteps ==
  [][IsCall("connect") =>
      LET c == lastop'.client
          h == tlsconn[c]
          n == Len(conns)
      IN /\ \A d \in Clients \ {c} : tlsconn'[d] = tlsconn[d] /\ connected'[d] = connected[d]
         /\ connected[c] =>
              (lastop'.err = nil /\ UNCHANGED <<tlsconn, connected, conns>>)
         /\ ~connected[c] =>
              /\ h # NilConn => ~conns'[h].open
              /\ \A g \in 1..n : g # h => conns'[g] = conns[g]
              /\ lastop'.err \in {nil, ErrDial, ErrHandshake}
              /\ lastop'.err = ErrDial =>
                   (Len(conns') = n /\ tlsconn'[c] = h /\ ~connected'[c])
              /\ lastop'.err # ErrDial =>
                   /\ Len(conns') = n + 1
                   /\ tlsconn'[c] = n + 1
                   /\ conns'[n + 1].open
                   /\ connected'[c] <=> conns'[n + 1].hs
                   /\ lastop'.err = nil <=> conns'[n + 1].hs]_vars

\* C14 witness: a connect() call found a handle whose handshake had failed,
\* closed it, dialled a new stream and ended Connected on it.
C14_Witness ==
  /\ lastop.op = "connect"
  /\ lastop.err = nil
  /\ connected[lastop.client]
  /\ \E h \in 1..Len(conns) :
       /\ h < tlsconn[lastop.client]
       /\ conns[h].owner = lastop.client
       /\ ~conns[h].hs
       /\ ~conns[h].open

\* a shutdown() call on client c whose stream is absent or already closed
ShutdownOfClosed(c) ==
  IsCall("shutdown") /\ lastop'.client = c
    /\ (tlsconn[c] = NilConn \/ ~conns[tlsconn[c]].open)

\* C15 as stated: every shutdown() call leaves the client Disconnected, and a
\* call made when the stream is absent or already closed changes nothing and
\* returns no error (so a second shutdown in a row is such a no-op).
C15_Original ==
  [][\A c \in Clients :
       /\ (IsCall("shutdown") /\ lastop'.client = c) => ~connected'[c]
       /\ ShutdownOfClosed(c) =>
            (UNCHANGED <<tlsconn, connected, conns>> /\ lastop'.err = nil)]_vars

\* C15 amended: every shutdown() call leaves the client Disconnected; a call
\* made when the stream is absent changes nothing and returns no error; a call
\* made when the stream is already closed changes nothing but returns the
\* error of closing a closed stream; so a second shutdown in a row leaves the
\* state of the first.
C15_ShutdownIdempotentState ==
  [][\A c \in Clients :
       /\ (IsCall("shutdown") /\ lastop'.client = c) => ~connected'[c]
       /\ ShutdownOfClosed(c) =>
            /\ UNCHANGED <<tlsconn, connected, conns>>
            /\ tlsconn[c] = NilConn => lastop'.err = nil
            /\ tlsconn[c] # NilConn => lastop'.err = ErrClosed
       /\ (IsCall("shutdown") /\ lastop'.client = c
             /\ lastop.op = "shutdown" /\ lastop.client = c)
            => UNCHANGED <<tlsconn, connected, conns>>]_vars

\* C15 witness: shutdown() was called on a client whose stream was already
\* closed and returned the error of the second Close.
C15_Witness ==
  /\ lastop.op = "shutdown"
  /\ lastop.err = ErrClosed
  /\ ~connected[lastop.client]

\* the errors connect() returns
ConnectErrs == {ErrDial, ErrHandshake}

\* call t takes the step that runs its deferred func after its connect() failed
DeferredAfterConnectFailure(t) ==
  pc[t] = "defer" /\ err[t] \in ConnectErrs /\ pc'[t] # pc[t]

\* C16 as stated: a SendPayload call whose connect() failed writes no packet
\* and, between the failure and its return, closes no stream handle: the
\* connection state is as connect() left it.
C16_Original ==
  [][\A t \in Senders :
       /\ (pc[t] \in {"connect", "handshake"} /\ pc'[t] = "defer") => UNCHANGED <<lastio, transactionId>>
       /\ DeferredAfterConnectFailure(t) =>
            UNCHANGED <<tlsconn, connected, conns, lastio, transactionId>>
       /\ (pc[t] = "unlock" /\ err[t] \in ConnectErrs /\ pc'[t] # pc[t])
            => result'[t] = err[t]]_vars

\* C16 amended: a SendPayload call whose connect() failed writes no packet,
\* leaves the transaction counter alone and returns that failure, but its
\* deferred func does run shutdown: the handle the client holds (if any) is
\* closed when the call returns, which after a handshake failure closes the
\* stream that was just dialled; no other stream is touched and the client is
\* Disconnected.
C16_ConnectFailureShutsDown ==
  [][\A t \in Senders :
       /\ (pc[t] \in {"connect", "handshake"} /\ pc'[t] = "defer") =>
            (err'[t] \in ConnectErrs /\ ~connected'[Push] /\ UNCHANGED <<lastio, transactionId>>)
       /\ DeferredAfterConnectFailure(t) =>
            /\ pc'[t] = "unlock"
            /\ UNCHANGED <<tlsconn, connected, lastio, transactionId>>
            /\ ~connected[Push]
            /\ err[t] = ErrHandshake => conns[tlsconn[Push]].open
            /\ tlsconn[Push] # NilConn => ~conns'[tlsconn[Push]].open
            /\ \A h \in 1..Len(conns) : h # tlsconn[Push] => conns'[h] = conns[h]
       /\ (pc[t] = "unlock" /\ err[t] \in ConnectErrs /\ pc'[t] # pc[t]) =>
            (result'[t] = err[t] /\ UNCHANGED <<tlsconn, connected, conns, lastio, transactionId>>)]_vars

\* C16 witness: a call has returned the handshake failure and the stream it
\* had dialled is closed.
C16_Witness ==
  \E t \in Senders :
    /\ pc[t] = "idle" /\ result[t] = ErrHandshake
    /\ tlsconn[Push] # NilConn
    /\ ~conns[tlsconn[Push]].hs
    /\ ~conns[tlsconn[Push]].open

\* a < b for two uint32 in limbs
U32Less(a, b) == a.hi < b.hi \/ (a.hi = b.hi /\ a.lo < b.lo)

\* b is a + 1 modulo 2^32
U32IsNext(a, b) ==
  /\ b.lo = (a.lo + 1) % 65536
  /\ b.hi = (a.hi + (IF a.lo = 65535 THEN 1 ELSE 0)) % 65536

\* C17: the push client's transaction counter changes only in the step of a
\* SendPayload call that holds the lock and has just got past connect, and then
\* by exactly +1; a call rejected for its payload size or failing at connect
\* leaves it unchanged; each packet given to Write carries the counter's value
\* of that moment, so the ids written, in the order the lock was taken, start
\* at 1 and are strictly increasing (no two calls write the same id).
C17_TransactionIds ==
  /\ [](/\ Len(written) > 0 => written[1] = U32(0, 1)
        /\ \A i, j \in 1..Len(written) : i < j => U32Less(written[i], written[j]))
  /\ [][/\ transactionId'[Push] # transactionId[Push] =>
             /\ U32IsNext(transactionId[Push], transactionId'[Push])
             /\ \E t \in Senders :
                  /\ mu[Push] = t /\ mu'[Push] = t
                  /\ pc[t] \in {"connect", "handshake"} /\ pc'[t] = "write"
        /\ \A t \in Senders :
             /\ (pc[t] \in {"connect", "handshake"} /\ pc'[t] = "write")
                  => transactionId'[Push] # transactionId[Push]
             /\ (pc[t] = "entry" /\ pc'[t] = "idle")
                  => transactionId' = transactionId
             /\ (pc[t] \in {"connect", "handshake"} /\ pc'[t] = "defer")
                  => transactionId' = transactionId
        /\ written' # written =>
             /\ written' = Append(written, transactionId[Push])
             /\ \E t \in Senders : mu[Push] = t /\ pc[t] = "write"]_vars

\* C17 witness: after a first packet a second one, with id 2, has been written.
C17_Witness ==
  /\ Len(written) >= 2
  /\ written[2] = U32(0, 2)
  /\ lastio.op = "write"
  /\ lastio.data = U32(0, 2)

\* C18: a caller that is not inside SendPayload does not hold the lock (every
\* return path has released it), every call that was entered eventually
\* returns, and every caller waiting for the lock eventually holds it.
C18_EveryCallReturns ==
  /\ [](\A t \in Senders : pc[t] \in {"idle", "entry", "lock"} => mu[Push] # t)
  /\ \A t \in Senders : (pc[t] # "idle") ~> (pc[t] = "idle")
  /\ \A t \in Senders : (pc[t] = "lock") ~> (mu[Push] = t)

\* the positions of the retry sequence that follows an end-of-stream
Retrying == {"shutdown", "sleep", "connect"}

\* C19: in the retry sequence after an end-of-stream the goroutine shuts the
\* connection down, then sleeps, then connects, in that order (the sleep is
\* entered only from the shutdown and the connect only from the sleep); a
\* connect that succeeds ends the sequence: the goroutine goes back to the read
\* with a new reader on the stream just opened, which is open and handshaken
\* and is not the stream read before; a further attempt starts only after a
\* failed connect or a new end-of-stream; and no step of the sequence hands a
\* record to the consumer.
C19_RetrySequence ==
  [][/\ (ppc = "shutdown" /\ ppc' # ppc) =>
          (ppc' = "sleep" /\ ~connected'[Feedback] /\ ~conns'[tlsconn[Feedback]].open)
     /\ (ppc = "sleep" /\ ppc' # ppc) =>
          (ppc' = "connect" /\ UNCHANGED <<tlsconn, connected, conns>>)
     /\ (ppc' = "sleep" /\ ppc' # ppc) => ppc = "shutdown"
     /\ (ppc' = "connect" /\ ppc' # ppc) => ppc = "sleep"
     /\ (ppc = "connect" /\ ppc' # ppc /\ connected'[Feedback]) =>
          /\ ppc' = "read"
          /\ count' = count
          /\ tlsconn'[Feedback] = Len(conns')
          /\ Len(conns') = Len(conns) + 1
          /\ buff_reader' = [conn |-> tlsconn'[Feedback], buf |-> <<>>]
          /\ buff_reader'.conn # buff_reader.conn
          /\ conns'[buff_reader'.conn].open
          /\ conns'[buff_reader'.conn].hs
     /\ (ppc = "connect" /\ ppc' # ppc /\ ~connected'[Feedback]) =>
          (ppc' \in {"shutdown", "read", "panic"} /\ buff_reader' = buff_reader)
     /\ (ppc' = "shutdown" /\ ppc' # ppc) =>
          \/ ppc = "read" /\ count' = 0
          \/ ppc = "connect" /\ ~connected'[Feedback] /\ count' = count + 1
     /\ ppc \in Retrying => (emitted' = emitted /\ outChan' = outChan)]_vars

\* C19 witness: after an end-of-stream a first reconnect attempt failed and the
\* second succeeded; the goroutine is back at the read on the new stream.
C19_Witness ==
  /\ ppc = "read"
  /\ count = 1
  /\ connected[Feedback]
  /\ buff_reader.conn = tlsconn[Feedback]
  /\ conns[buff_reader.conn].open
  /\ \E h \in 1..Len(conns) : h < buff_reader.conn /\ conns[h].hs /\ ~conns[h].open

\* the streams client c opened that are not closed
OpenStreams(c) == {h \in 1..Len(conns) : conns[h].owner = c /\ conns[h].open}

\* the step opens a new stream: every stream its client opened before is closed
\* once the step is done
OpensOnlyAfterClose ==
  Len(conns') > Len(conns) =>
    \A h \in 1..Len(conns) :
      conns[h].owner = conns'[Len(conns')].owner => ~conns'[h].open

\* C20 as stated: a client has at most one open stream at any time, a step that
\* opens a new stream leaves every older stream of the client closed, and when
\* a SendPayload call returns an error no stream of the client is open.
C20_Original ==
  /\ [](\A c \in Clients : Cardinality(OpenStreams(c)) <= 1)
  /\ [][/\ OpensOnlyAfterClose
        /\ \A t \in Senders :
             (pc[t] # "idle" /\ pc'[t] = "idle" /\ result'[t] # nil)
               => \A h \in 1..Len(conns') : conns'[h].owner = Push => ~conns'[h].open]_vars

\* C20 amended: a client has at most one open stream at any time, a step that
\* opens a new stream leaves every older stream of the client closed, and when
\* a SendPayload call returns an error after it took the lock (any error but
\* the payload-size rejection, which is returned before the lock and touches no
\* stream) no stream of the client is open.
C20_OneOpenStream ==
  /\ [](\A c \in Clients : Cardinality(OpenStreams(c)) <= 1)
  /\ [][/\ OpensOnlyAfterClose
        /\ \A t \in Senders :
             (pc[t] = "unlock" /\ pc'[t] = "idle" /\ result'[t] # nil)
               => \A h \in 1..Len(conns') : conns'[h].owner = Push => ~conns'[h].open
        /\ \A t \in Senders :
             (pc[t] = "entry" /\ pc'[t] = "idle") => conns' = conns]_vars

\* C20 witness: a call returned an error under the lock, leaving no stream
\* open, and a later call opened a second stream, the only open one.
C20_Witness ==
  /\ Len(conns) >= 2
  /\ OpenStreams(Push) = {Len(conns)}
  /\ \E t \in Senders : pc[t] = "idle" /\ result[t] \notin {nil, Pending, ErrTooLarge}

====
